---- MODULE Spec2Model ----
(***************************************************************************)
(* quoth: the sled-backed index layer (src/quoth/database.rs), the codec   *)
(* helpers it uses (src/utils.rs) and the commands of src/quoth/mod.rs     *)
(* that drive it.  Byte strings are sequences of ASCII codes; a sled tree  *)
(* is a function from the keys present to their values.                    *)
(***************************************************************************)
EXTENDS Integers, Sequences, FiniteSets, TLC

\* ---------------------------------------------------------------- bounds
\* Longest index list given to the codec, and the largest index in it.
MaxLen == 3
\* Longest phrase given to camel_case_phrase on its own.
MaxPhrase == 4
MaxIndex == 10
\* Months are numbered 0..MaxMonth in the dates given to the aggregation queries.
MaxMonth == 2
\* Largest index an imported (JSON) quote may carry.
MaxId == 2
\* Cap on the stored quote_index counter, i.e. on the number of add_quote calls.
MaxCounter == 3
\* The years of the dates given to get_months are 0..MaxYear.
MaxYear == 2
\* The most events the channel of the dashboard holds unreceived.
MaxQueue == 3
\* The longest bar chart and author table of the dashboard.
MaxScroll == 2
\* The width of usize in the model of the scroll state, in bits.
UsizeBits == 3

\* ------------------------------------------------------- bytes and codec
SEMICOLON == 59
COMMA == 44
SPACE == 32
PLUS == 43
DIGIT_ZERO == 48

\* Option<T>: None is <<>>, Some(x) is <<x>>.
None == <<>>
Some(x) == <<x>>

\* usize::to_string: the decimal numeral.
RECURSIVE to_string(_)
to_string(n) ==
  IF n < 10 THEN <<DIGIT_ZERO + n>>
  ELSE to_string(n \div 10) \o <<DIGIT_ZERO + (n % 10)>>

RECURSIVE digits_value(_, _)
digits_value(s, acc) ==
  IF s = <<>> THEN acc
  ELSE digits_value(Tail(s), 10 * acc + (Head(s) - DIGIT_ZERO))

\* str::parse::<usize>: an optional leading '+', then one or more digits.
parse_usize(word) ==
  LET body == IF Len(word) > 0 /\ word[1] = PLUS THEN Tail(word) ELSE word
  IN IF body = <<>> \/ \E i \in 1..Len(body) : body[i] \notin DIGIT_ZERO..(DIGIT_ZERO + 9)
     THEN [ok |-> FALSE, val |-> 0]
     ELSE [ok |-> TRUE, val |-> digits_value(body, 0)]

\* str::split(sep): the segments between separators; "" splits to one empty segment.
RECURSIVE str_split(_, _)
str_split(s, sep) ==
  IF \A i \in 1..Len(s) : s[i] # sep THEN <<s>>
  ELSE LET i == CHOOSE k \in 1..Len(s) : s[k] = sep /\ \A j \in 1..(k - 1) : s[j] # sep
       IN <<SubSeq(s, 1, i - 1)>> \o str_split(SubSeq(s, i + 1, Len(s)), sep)

\* [String]::join(sep).
RECURSIVE str_join(_, _)
str_join(words, sep) ==
  IF words = <<>> THEN <<>>
  ELSE IF Len(words) = 1 THEN words[1]
  ELSE words[1] \o <<sep>> \o str_join(Tail(words), sep)

to_ascii_uppercase(c) == IF c \in 97..122 THEN c - 32 ELSE c
to_ascii_lowercase(c) == IF c \in 65..90 THEN c + 32 ELSE c

camel_case_word(word) ==
  IF word = <<>> THEN <<>>
  ELSE <<to_ascii_uppercase(word[1])>>
       \o [i \in 1..(Len(word) - 1) |-> to_ascii_lowercase(word[i + 1])]

\* char::is_whitespace, for ASCII: tab, line feed, vertical tab, form feed,
\* carriage return and space.
is_whitespace(c) == c \in {9, 10, 11, 12, 13, SPACE}

\* str::split_whitespace: the non-empty runs between whitespace.
split_whitespace(input) ==
  SelectSeq(str_split([i \in 1..Len(input) |->
                         IF is_whitespace(input[i]) THEN SPACE ELSE input[i]],
                      SPACE),
            LAMBDA w : w # <<>>)

\* camel_case_phrase cutting the input at every single space.
camel_case_phrase_each_space(input) ==
  str_join([i \in 1..Len(str_split(input, SPACE)) |->
              camel_case_word(str_split(input, SPACE)[i])], SPACE)

camel_case_phrase(input) ==
  LET words == split_whitespace(input)
  IN str_join([i \in 1..Len(words) |-> camel_case_word(words[i])], SPACE)

RECURSIVE trim_start(_)
trim_start(s) == IF s # <<>> /\ Head(s) = SPACE THEN trim_start(Tail(s)) ELSE s

RECURSIVE trim_end(_)
trim_end(s) ==
  IF s # <<>> /\ s[Len(s)] = SPACE THEN trim_end(SubSeq(s, 1, Len(s) - 1)) ELSE s

trim(s) == trim_end(trim_start(s))

split_tags(input) ==
  LET words == str_split(input, COMMA)
  IN [i \in 1..Len(words) |-> trim(words[i])]

split_values_string(index_list) == str_split(index_list, SEMICOLON)

\* Result<Vec<usize>>: the first segment that does not parse fails the whole call.
split_indices_usize(index_list) ==
  LET words == str_split(index_list, SEMICOLON)
      parsed == [i \in 1..Len(words) |-> parse_usize(words[i])]
  IN IF \E i \in 1..Len(words) : ~parsed[i].ok
     THEN [ok |-> FALSE, val |-> <<>>]
     ELSE [ok |-> TRUE, val |-> [i \in 1..Len(words) |-> parsed[i].val]]

make_indices_string(index_list) ==
  str_join([i \in 1..Len(index_list) |-> to_string(index_list[i])], SEMICOLON)

\* The while loop of insertion_sort; test_slot is the code's 0-based slot.
RECURSIVE insertion_sort_shift(_, _, _)
insertion_sort_shift(output_array, test_slot, value) ==
  IF output_array[test_slot + 1] > value
  THEN LET shifted == [output_array EXCEPT ![test_slot + 2] = output_array[test_slot + 1]]
       IN IF test_slot = 0 THEN [array |-> shifted, test_slot |-> 0]
          ELSE insertion_sort_shift(shifted, test_slot - 1, value)
  ELSE [array |-> output_array, test_slot |-> test_slot]

RECURSIVE insertion_sort_from(_, _)
insertion_sort_from(output_array, slot) ==
  IF slot >= Len(output_array) THEN output_array
  ELSE LET value == output_array[slot + 1]
           r == insertion_sort_shift(output_array, slot - 1, value)
       IN insertion_sort_from([r.array EXCEPT ![r.test_slot + 2] = value], slot + 1)

insertion_sort(array) == insertion_sort_from(array, 1)

\* ------------------------------------------------------------ sled trees
EmptyTree == [k \in {} |-> <<>>]

tree_get(tree, key) == IF key \in DOMAIN tree THEN Some(tree[key]) ELSE None

tree_insert(tree, key, value) ==
  [k \in DOMAIN tree \cup {key} |-> IF k = key THEN value ELSE tree[k]]

tree_remove(tree, key) == [k \in DOMAIN tree \ {key} |-> tree[k]]

\* merge_index putting the new index in front of the old ones.
merge_index_prepend(key, old_indices, new_index) ==
  LET ret == IF old_indices = None THEN <<>> ELSE old_indices[1]
  IN Some(new_index \o (IF ret # <<>> THEN <<SEMICOLON>> \o ret ELSE ret))

merge_index(key, old_indices, new_index) ==
  LET ret == IF old_indices = None THEN <<>> ELSE old_indices[1]
  IN Some((IF ret # <<>> THEN ret \o <<SEMICOLON>> ELSE ret) \o new_index)

\* sled::Tree::merge with merge_index as the tree's merge operator.
tree_merge(tree, key, value) ==
  tree_insert(tree, key, merge_index(key, tree_get(tree, key), value)[1])

\* sled::Batch: a sequence of insert/remove operations applied in order.
RECURSIVE apply_batch(_, _)
apply_batch(tree, batch) ==
  IF batch = <<>> THEN tree
  ELSE LET op == Head(batch)
       IN apply_batch(IF op.insert THEN tree_insert(tree, op.key, op.value)
                      ELSE tree_remove(tree, op.key),
                      Tail(batch))

batch_remove(key) == [insert |-> FALSE, key |-> key, value |-> <<>>]
batch_insert(key, value) == [insert |-> TRUE, key |-> key, value |-> value]

\* -------------------------------------------------------------- the store
\* db: the sled::Db of Trees.  Each named tree is a function from its keys to
\* their values; db.default holds the "quote_index" counter as a numeral.
\* last: the most recent command, its index, its quote and the Result it returned.
\* used: every index that has ever been a key of the quote tree.
\* added: the quotes passed to add_quote so far, kept while no other command
\*        has run (adds_only); emptied for good once another command runs.
\* calc: a helper function under evaluation outside any command: the input
\*       drawn for it, the function applied last, its argument and its result.
VARIABLES db, last, used, adds_only, added, calc

vars == <<db, last, used, adds_only, added, calc>>

\* A Quote (src/quoth/quotes.rs).  The quote tree stores the Quote itself.
Quote(index, book, author, tags) ==
  [index |-> index, book |-> book, author |-> author, tags |-> tags]

Quote_new(index, title, author, tags) ==
  Quote(index, camel_case_phrase(title), camel_case_phrase(author), split_tags(tags))

Ok(d) == [db |-> d, err |-> "Ok"]
Err(d, e) == [db |-> d, err |-> e]

get_quote_index(d) ==
  IF "quote_index" \in DOMAIN d.default
  THEN parse_usize(d.default["quote_index"]).val
  ELSE 0

\* add_author_and_book merging the title without looking for it first.
add_author_and_book_unchecked(d, author_key, book_key, index_key) ==
  LET d1 == [d EXCEPT !.author_quote = tree_merge(@, author_key, index_key)]
      d2 == [d1 EXCEPT !.author_book = tree_merge(@, author_key, book_key)]
      d3 == [d2 EXCEPT !.book_quote = tree_merge(@, book_key, index_key)]
  IN [d3 EXCEPT !.book_author = tree_insert(@, book_key, author_key)]

add_author_and_book(d, author_key, book_key, index_key) ==
  LET d1 == [d EXCEPT !.author_quote = tree_merge(@, author_key, index_key)]
      books == tree_get(d1.author_book, author_key)
      d2 == IF books # None
            THEN IF ~\E i \in 1..Len(split_values_string(books[1])) :
                       split_values_string(books[1])[i] = book_key
                 THEN [d1 EXCEPT !.author_book = tree_merge(@, author_key, book_key)]
                 ELSE d1
            ELSE [d1 EXCEPT !.author_book = tree_insert(@, author_key, book_key)]
      d3 == [d2 EXCEPT !.book_quote = tree_merge(@, book_key, index_key)]
  IN [d3 EXCEPT !.book_author = tree_insert(@, book_key, author_key)]

get_quote(d, index) ==
  LET index_key == to_string(index)
  IN IF index_key \in DOMAIN d.quote
     THEN [ok |-> TRUE, val |-> d.quote[index_key], err |-> "Ok"]
     ELSE [ok |-> FALSE, val |-> <<>>, err |-> "QuoteNotFound"]

increment_quote_index(d) ==
  [d EXCEPT !.default = tree_insert(@, "quote_index", to_string(get_quote_index(d) + 1))]

RECURSIVE merge_tags(_, _, _)
merge_tags(tree, tags, index_key) ==
  IF tags = <<>> THEN tree
  ELSE merge_tags(tree_merge(tree, Head(tags), index_key), Tail(tags), index_key)

add_quote(d, quote) ==
  LET index_key == to_string(quote.index)
      d1 == [d EXCEPT !.quote = tree_insert(@, index_key, quote)]
      d2 == add_author_and_book(d1, quote.author, quote.book, index_key)
      d3 == [d2 EXCEPT !.tag_quote = merge_tags(@, quote.tags, index_key)]
  IN Ok(increment_quote_index(d3))

RECURSIVE remove_keys(_, _)
remove_keys(tree, keys) ==
  IF keys = <<>> THEN tree ELSE remove_keys(tree_remove(tree, Head(keys)), Tail(keys))

\* delete_author removing the author alone, the author's books staying.
delete_author_keeps_books(d, author_key) ==
  LET d1 == [d EXCEPT !.author_quote = tree_remove(@, author_key)]
  IN IF author_key \notin DOMAIN d1.author_book THEN Err(d1, "AuthorNotFound")
     ELSE Ok([d1 EXCEPT !.author_book = tree_remove(@, author_key)])

delete_author(d, author_key) ==
  LET d1 == [d EXCEPT !.author_quote = tree_remove(@, author_key)]
  IN IF author_key \notin DOMAIN d1.author_book THEN Err(d1, "AuthorNotFound")
     ELSE LET books == split_values_string(d1.author_book[author_key])
          IN Ok([d1 EXCEPT !.book_quote = remove_keys(@, books),
                           !.book_author = remove_keys(@, books),
                           !.author_book = tree_remove(@, author_key)])

Without(indices, index) == SelectSeq(indices, LAMBDA index_i : index_i # index)

\* Returns the batch with this tag's operation appended, or the error.
delete_from_tag(d, tag_key, index, batch) ==
  IF tag_key \notin DOMAIN d.tag_quote THEN [batch |-> batch, err |-> "TagNotFound"]
  ELSE LET indices == split_indices_usize(d.tag_quote[tag_key])
       IN IF ~indices.ok THEN [batch |-> batch, err |-> "ParseIntError"]
          ELSE LET new_indices == Without(indices.val, index)
               IN [batch |-> Append(batch,
                                    IF new_indices = <<>> THEN batch_remove(tag_key)
                                    ELSE batch_insert(tag_key,
                                                      make_indices_string(new_indices))),
                   err |-> "Ok"]

\* delete_from_book leaving book_author behind when the book empties.
delete_from_book_keeps_author(d, book_key, index) ==
  IF book_key \notin DOMAIN d.book_quote THEN Err(d, "BookNotFound")
  ELSE LET indices == split_indices_usize(d.book_quote[book_key])
       IN IF ~indices.ok THEN Err(d, "ParseIntError")
          ELSE LET new_indices == Without(indices.val, index)
               IN IF new_indices = <<>>
                  THEN Ok([d EXCEPT !.book_quote = tree_remove(@, book_key)])
                  ELSE Ok([d EXCEPT !.book_quote =
                             tree_insert(@, book_key, make_indices_string(new_indices))])

\* delete_from_book taking the book out whatever its list still holds.
delete_from_book_whole(d, book_key, index) ==
  IF book_key \notin DOMAIN d.book_quote THEN Err(d, "BookNotFound")
  ELSE IF ~split_indices_usize(d.book_quote[book_key]).ok THEN Err(d, "ParseIntError")
  ELSE Ok([d EXCEPT !.book_quote = tree_remove(@, book_key),
                    !.book_author = tree_remove(@, book_key)])

delete_from_book(d, book_key, index) ==
  IF book_key \notin DOMAIN d.book_quote THEN Err(d, "BookNotFound")
  ELSE LET indices == split_indices_usize(d.book_quote[book_key])
       IN IF ~indices.ok THEN Err(d, "ParseIntError")
          ELSE LET new_indices == Without(indices.val, index)
               IN IF new_indices = <<>>
                  THEN Ok([d EXCEPT !.book_quote = tree_remove(@, book_key),
                                    !.book_author = tree_remove(@, book_key)])
                  ELSE Ok([d EXCEPT !.book_quote =
                             tree_insert(@, book_key, make_indices_string(new_indices))])

\* delete_from_author_and_book leaving the index in the author's list.
delete_from_author_and_book_keeps_index(d, author_key, book_key, index) ==
  IF author_key \notin DOMAIN d.author_quote THEN Err(d, "AuthorNotFound")
  ELSE LET indices == split_indices_usize(d.author_quote[author_key])
       IN IF ~indices.ok THEN Err(d, "ParseIntError")
          ELSE IF Without(indices.val, index) = <<>> THEN delete_author(d, author_key)
          ELSE delete_from_book(d, book_key, index)

delete_from_author_and_book(d, author_key, book_key, index) ==
  IF author_key \notin DOMAIN d.author_quote THEN Err(d, "AuthorNotFound")
  ELSE LET indices == split_indices_usize(d.author_quote[author_key])
       IN IF ~indices.ok THEN Err(d, "ParseIntError")
          ELSE LET new_indices == Without(indices.val, index)
               IN IF new_indices = <<>> THEN delete_author(d, author_key)
                  ELSE delete_from_book(
                         [d EXCEPT !.author_quote =
                            tree_insert(@, author_key, make_indices_string(new_indices))],
                         book_key, index)

\* The loop over a quote's tags that fills the tag batch; stops at the first error.
RECURSIVE delete_from_tags(_, _, _, _)
delete_from_tags(d, tags, index, batch) ==
  IF tags = <<>> THEN [batch |-> batch, err |-> "Ok"]
  ELSE LET r == delete_from_tag(d, Head(tags), index, batch)
       IN IF r.err # "Ok" THEN r ELSE delete_from_tags(d, Tail(tags), index, r.batch)

remove_quote(d, index) ==
  LET index_key == to_string(index)
  IN IF index_key \in DOMAIN d.quote
     THEN [db |-> [d EXCEPT !.quote = tree_remove(@, index_key)],
           quote |-> d.quote[index_key], err |-> "Ok"]
     ELSE [db |-> d, quote |-> None, err |-> "QuoteNotFound"]

\* The unindexing shared by delete_quote and change_quote: the author/book trees,
\* then the tag batch, which is applied only when every tag was found.
unindex(d, quote, index) ==
  LET r == delete_from_author_and_book(d, quote.author, quote.book, index)
  IN IF r.err # "Ok" THEN r
     ELSE LET t == delete_from_tags(r.db, quote.tags, index, <<>>)
          IN IF t.err # "Ok" THEN Err(r.db, t.err)
             ELSE Ok([r.db EXCEPT !.tag_quote = apply_batch(@, t.batch)])

\* delete_quote treating a missing quote as nothing to do.
delete_quote_ignores_missing(d, index) ==
  LET q == remove_quote(d, index)
  IN IF q.err # "Ok" THEN Ok(q.db) ELSE unindex(q.db, q.quote, index)

delete_quote(d, index) ==
  LET q == remove_quote(d, index)
  IN IF q.err # "Ok" THEN Err(q.db, q.err) ELSE unindex(q.db, q.quote, index)

\* change_quote re-indexing through add_quote, which also advances the counter.
change_quote_by_add(d, index, new_quote) ==
  LET old_quote == get_quote(d, index)
  IN IF ~old_quote.ok THEN Err(d, old_quote.err)
     ELSE LET u == unindex(d, old_quote.val, index)
          IN IF u.err # "Ok" THEN u ELSE add_quote(u.db, new_quote)

change_quote(d, index, new_quote) ==
  LET old_quote == get_quote(d, index)
  IN IF ~old_quote.ok THEN Err(d, old_quote.err)
     ELSE LET u == unindex(d, old_quote.val, index)
          IN IF u.err # "Ok" THEN u
             ELSE LET index_key == to_string(index)
                      d1 == add_author_and_book(u.db, new_quote.author, new_quote.book,
                                                index_key)
                      d2 == [d1 EXCEPT !.tag_quote =
                               merge_tags(@, new_quote.tags, index_key)]
                  IN Ok([d2 EXCEPT !.quote = tree_insert(@, index_key, new_quote)])

\* The three queries: Ok with the decoded list, or the NotFound / parse error.
lookup_indices(tree, key, not_found) ==
  IF key \notin DOMAIN tree THEN [err |-> not_found, val |-> <<>>]
  ELSE LET indices == split_indices_usize(tree[key])
       IN IF indices.ok THEN [err |-> "Ok", val |-> indices.val]
          ELSE [err |-> "ParseIntError", val |-> <<>>]

get_author_quotes(d, author) ==
  lookup_indices(d.author_quote, camel_case_phrase(author), "AuthorNotFound")

get_book_quotes(d, book) ==
  lookup_indices(d.book_quote, camel_case_phrase(book), "BookNotFound")

get_tag_quotes(d, tag) == lookup_indices(d.tag_quote, tag, "TagNotFound")

\* ----------------------------------------------------------- the commands
\* What the user types at the prompts of Quote::from_user: author, title, tag line.
\* "a" and "B" are two authors, "x" and "Y" two titles, "x" shared by both authors.
UserInputs ==
  { [author |-> <<97>>, title |-> <<120>>, tags |-> <<116>>],
    [author |-> <<97>>, title |-> <<89>>, tags |-> <<116, COMMA, SPACE, 117>>],
    [author |-> <<66>>, title |-> <<120>>, tags |-> <<117>>] }

\* One author whose titles are "x" and a blank one (an empty BOOK cell of a TSV row).
BlankInputs ==
  { [author |-> <<97>>, title |-> <<SPACE>>, tags |-> <<116>>],
    [author |-> <<97>>, title |-> <<120>>, tags |-> <<116>>] }

\* Quote::from_user numbering the quote one past the index it is given.
Quote_from_user_renumbered(index, input) ==
  Quote_new(index + 1, input.title, input.author, input.tags)

Quote_from_user(index, input) == Quote_new(index, input.title, input.author, input.tags)

\* The indices a command line may name: any a stored quote can carry.
Indices == 1..(IF MaxId > MaxCounter THEN MaxId ELSE MaxCounter)

indices_of(tree) == {parse_usize(k).val : k \in DOMAIN tree}

\* The record of a command: its index argument, the quote it was given (for a
\* delete, the quote it took out of the quote tree) and the Result it returned.
Call(op, index, quote, r) == [op |-> op, index |-> index, quote |-> quote, res |-> r.err]

\* No helper function is under evaluation.
NoCalc == [fn |-> "none", arg |-> None, res |-> None, input |-> None]

InitStore ==
  /\ db = [default |-> EmptyTree, quote |-> EmptyTree, author_quote |-> EmptyTree,
           author_book |-> EmptyTree, book_quote |-> EmptyTree,
           book_author |-> EmptyTree, tag_quote |-> EmptyTree]
  /\ last = [op |-> "start", index |-> 0, quote |-> None, res |-> "Ok"]
  /\ used = {}
  /\ adds_only = TRUE
  /\ added = <<>>

Init == InitStore /\ calc = NoCalc

\* add_quote as a step: the store, and the record of what was called.
AddStep(op, quote) ==
  LET r == add_quote(db, quote)
  IN /\ get_quote_index(db) < MaxCounter
     /\ db' = r.db
     /\ last' = Call(op, quote.index, quote, r)
     /\ used' = used \cup indices_of(r.db.quote)
     /\ adds_only' = adds_only
     /\ added' = IF adds_only THEN Append(added, quote) ELSE added
     /\ calc' = calc

\* Quoth::quoth: a quote typed by the user gets the index quote_index + 1.
\* (A TSV import numbers its rows the same way, one add_quote per row.)
Quoth_quoth(inputs) ==
  \E input \in inputs :
    AddStep("quoth", Quote_from_user(get_quote_index(db) + 1, input))

\* Quoth::run, "import" of a JSON file: each quote is added with the index it carries.
Quoth_import(inputs) ==
  \E index \in 1..MaxId, input \in inputs :
    AddStep("import", Quote_from_user(index, input))

Quoth_delete_quote ==
  \E index \in Indices :
    LET r == delete_quote(db, index)
    IN /\ db' = r.db
       /\ last' = Call("delete", index, remove_quote(db, index).quote, r)
       /\ used' = used
       /\ adds_only' = FALSE
       /\ added' = <<>>
       /\ calc' = calc

\* Quoth::change_quote: the new quote is composed with the index being changed.
Quoth_change_quote(inputs) ==
  \E index \in Indices, input \in inputs :
    LET new_quote == Quote_from_user(index, input)
        r == change_quote(db, index, new_quote)
    IN /\ db' = r.db
       /\ last' = Call("change", index, new_quote, r)
       /\ used' = used
       /\ adds_only' = FALSE
       /\ added' = <<>>
       /\ calc' = calc

Next ==
  \/ Quoth_quoth(UserInputs)
  \/ Quoth_import(UserInputs)
  \/ Quoth_delete_quote
  \/ Quoth_change_quote(UserInputs)

Spec == Init /\ [][Next]_vars

\* The same commands when the user leaves a title blank.
NextBlank ==
  \/ Quoth_quoth(BlankInputs)
  \/ Quoth_import(BlankInputs)
  \/ Quoth_delete_quote
  \/ Quoth_change_quote(BlankInputs)

SpecBlank == Init /\ [][NextBlank]_vars

\* ------------------------------------------------------------- invariants
\* The identifiers listed in one stored value, as the numerals between semicolons.
segments(value) ==
  {split_values_string(value)[i] : i \in 1..Len(split_values_string(value))}

listed(tree) == UNION {segments(tree[k]) : k \in DOMAIN tree}

IndexIds == listed(db.author_quote) \cup listed(db.book_quote) \cup listed(db.tag_quote)

RecordKeys == DOMAIN db.quote

\* The last command was an add, delete or change that returned Ok.
Completed == last.op # "start" /\ last.res = "Ok"

\* C1 (I1): after every completed add_quote, delete_quote or change_quote, every
\* identifier in the author, book and tag quote-id lists is a key of the quote
\* tree, and every key of the quote tree is in those lists.
I1_IndexIdsAreRecordKeys == Completed => IndexIds = RecordKeys

\* The identifiers listed under a key, none when the key is absent.
ids_at(tree, key) == IF key \in DOMAIN tree THEN segments(tree[key]) ELSE {}

\* C2 (I2): after every completed add_quote, delete_quote or change_quote, for
\* every author key a the identifiers of author_quote[a] are exactly those of
\* book_quote[b] taken over every book b listed in author_book[a].
I2_AuthorIdsAreBookIds ==
  Completed =>
    \A a \in DOMAIN db.author_quote \cup DOMAIN db.author_book :
      ids_at(db.author_quote, a)
        = UNION {ids_at(db.book_quote, b) : b \in ids_at(db.author_book, a)}

\* C3 (I3): after every completed add_quote, delete_quote or change_quote, every
\* book key b has one author in book_author, and it is the author field of
\* every stored quote whose identifier is listed in book_quote[b].
I3_BookAuthorIsQuoteAuthor ==
  Completed =>
    \A b \in DOMAIN db.book_quote :
      /\ b \in DOMAIN db.book_author
      /\ \A id \in segments(db.book_quote[b]) \cap DOMAIN db.quote :
           db.quote[id].author = db.book_author[b]

\* The keys of a quote-id tree held with nothing listed under them.
empty_present(tree) == {k \in DOMAIN tree : tree[k] = <<>>}

\* C4 (I4): after every completed operation no author, book or tag key is
\* present with an empty list (no query returns Ok with an empty list), and no
\* key is absent while a stored quote carries that author, book or tag.
I4_AbsentIffEmpty ==
  Completed =>
    /\ empty_present(db.author_quote) = {}
    /\ empty_present(db.book_quote) = {}
    /\ empty_present(db.tag_quote) = {}
    /\ \A tree \in {db.author_quote, db.book_quote, db.tag_quote} :
         \A k \in DOMAIN tree :
           LET r == lookup_indices(tree, k, "NotFound")
           IN r.err = "Ok" => r.val # <<>>
    /\ \A id \in DOMAIN db.quote :
         LET quote == db.quote[id]
         IN /\ quote.author \in DOMAIN db.author_quote
            /\ quote.book \in DOMAIN db.book_quote
            /\ \A i \in 1..Len(quote.tags) : quote.tags[i] \in DOMAIN db.tag_quote

\* ------------------------------------------------------------ transitions
\* The step is an add_quote (Quoth::quoth or an import), of the quote indexed last'.index.
IsAdd == last'.op \in {"quoth", "import"}

\* C5 (I5): across any sequence of operations the quote_index counter never
\* decreases, and the index of a newly added quote is never that of a quote
\* that is, or once was, in the quote tree.
I5_CounterMonotoneIdsFresh ==
  [][/\ get_quote_index(db') >= get_quote_index(db)
     /\ IsAdd => last'.index \notin used]_vars

\* C6: add_quote with a quote whose index is already a key of the quote tree
\* fails with DuplicateIdentifier and leaves the stored quote as it was.
AddExistingFailsWithoutOverwrite ==
  [][(IsAdd /\ to_string(last'.index) \in DOMAIN db.quote)
       => (last'.res = "DuplicateIdentifier" /\ db'.quote = db.quote)]_vars

sorted_ascending(indices) ==
  \A i, j \in 1..Len(indices) : i < j => indices[i] <= indices[j]

\* The list stored under key is present, decodes, and is in ascending order.
stored_sorted(tree, key) ==
  LET r == lookup_indices(tree, key, "NotFound")
  IN r.err = "Ok" /\ sorted_ascending(r.val)

\* C7: after change_quote(i, new_quote) completes, the lists of the new quote's
\* author, of its book and of each of its tags are sorted ascending.
ChangeLeavesListsSorted ==
  (last.op = "change" /\ last.res = "Ok") =>
    LET new_quote == db.quote[to_string(last.index)]
    IN /\ stored_sorted(db.author_quote, new_quote.author)
       /\ stored_sorted(db.book_quote, new_quote.book)
       /\ \A i \in 1..Len(new_quote.tags) : stored_sorted(db.tag_quote, new_quote.tags[i])

\* ------------------------------------------------------------- scenarios
ids_added == [i \in 1..Len(added) |-> added[i].index]

\* The tags every quote added so far carries.
shared_tags ==
  {t \in {added[1].tags[k] : k \in 1..Len(added[1].tags)} :
     \A i \in 1..Len(added) : \E k \in 1..Len(added[i].tags) : added[i].tags[k] = t}

\* Only add_quote has run since the empty store, on quotes with distinct
\* indices that share one author, one book and at least one tag.
SharedAdds ==
  /\ adds_only
  /\ added # <<>>
  /\ \A i, j \in 1..Len(added) : i # j => added[i].index # added[j].index
  /\ \A i \in 1..Len(added) :
       added[i].author = added[1].author /\ added[i].book = added[1].book
  /\ shared_tags # {}

\* C8: from an empty store, after add_quote of quotes with distinct indices
\* i1, ..., in that share one author, one book and one tag, get_author_quotes,
\* get_book_quotes and get_tag_quotes return exactly [i1, ..., in], in the order
\* of addition.
SharedAddsListedInOrder ==
  SharedAdds =>
    /\ get_author_quotes(db, added[1].author) = [err |-> "Ok", val |-> ids_added]
    /\ get_book_quotes(db, added[1].book) = [err |-> "Ok", val |-> ids_added]
    /\ \A t \in shared_tags : get_tag_quotes(db, t) = [err |-> "Ok", val |-> ids_added]

\* Three such quotes, added in an order that is not the order of their indices.
SharedAddsOutOfOrder ==
  SharedAdds /\ Len(added) = 3 /\ added[1].index > added[2].index

\* The step is a delete_quote of a quote that was in the quote tree.
IsDelete == last'.op = "delete" /\ to_string(last'.index) \in DOMAIN db.quote

\* The quote the step deletes.
deleted == db.quote[to_string(last'.index)]

\* What is listed under key before the step, less the deleted index.
remaining(tree, key) ==
  LET r == lookup_indices(tree, key, "NotFound")
  IN IF r.err = "Ok" THEN Without(r.val, last'.index) ELSE <<>>

\* C9: delete_quote(i), when the quote's author still has other quotes, leaves
\* author_quote[author] holding the remaining indices in their previous order;
\* book_quote[book] likewise keeps its remaining indices or, if none remain,
\* the book leaves book_quote and book_author; author_book[author] and the
\* entries of every other book are unchanged.
DeleteKeepsAuthorAndOtherBooks ==
  [][(IsDelete /\ remaining(db.author_quote, deleted.author) # <<>>) =>
       /\ get_author_quotes(db', deleted.author)
            = [err |-> "Ok", val |-> remaining(db.author_quote, deleted.author)]
       /\ IF remaining(db.book_quote, deleted.book) # <<>>
          THEN get_book_quotes(db', deleted.book)
                 = [err |-> "Ok", val |-> remaining(db.book_quote, deleted.book)]
          ELSE /\ deleted.book \notin DOMAIN db'.book_quote
               /\ deleted.book \notin DOMAIN db'.book_author
       /\ tree_get(db'.author_book, deleted.author) = tree_get(db.author_book, deleted.author)
       /\ \A b \in (DOMAIN db.book_quote \cup DOMAIN db.book_author) \ {deleted.book} :
            /\ tree_get(db'.book_quote, b) = tree_get(db.book_quote, b)
            /\ tree_get(db'.book_author, b) = tree_get(db.book_author, b)]_vars

\* A delete has left the quote's author with other quotes and another book,
\* and has taken the quote's book, emptied, out of book_quote.
DeletedOneOfSeveral ==
  /\ last.op = "delete" /\ last.res = "Ok"
  /\ last.quote.author \in DOMAIN db.author_quote
  /\ last.quote.book \notin DOMAIN db.book_quote
  /\ \E b \in DOMAIN db.book_quote : db.book_author[b] = last.quote.author

\* The tags of the deleted quote under which nothing else is listed.
last_tags ==
  {t \in {deleted.tags[k] : k \in 1..Len(deleted.tags)} :
     t \in DOMAIN db.tag_quote /\ remaining(db.tag_quote, t) = <<>>}

\* The step deletes the last quote listed under its author, its book and a tag.
DeletesLast ==
  /\ IsDelete
  /\ last'.res = "Ok"
  /\ deleted.author \in DOMAIN db.author_quote
  /\ remaining(db.author_quote, deleted.author) = <<>>
  /\ deleted.book \in DOMAIN db.book_quote
  /\ remaining(db.book_quote, deleted.book) = <<>>
  /\ last_tags # {}

\* C10: after delete_quote removes the last quote of an author, of a book and
\* of a tag, the three keys are absent from author_quote, book_quote and
\* tag_quote, and get_author_quotes, get_book_quotes and get_tag_quotes fail
\* with AuthorNotFound, BookNotFound and TagNotFound.
DeleteLastRemovesKeys ==
  [][DeletesLast =>
       /\ deleted.author \notin DOMAIN db'.author_quote
       /\ deleted.book \notin DOMAIN db'.book_quote
       /\ get_author_quotes(db', deleted.author).err = "AuthorNotFound"
       /\ get_book_quotes(db', deleted.book).err = "BookNotFound"
       /\ \A t \in last_tags :
            t \notin DOMAIN db'.tag_quote /\ get_tag_quotes(db', t).err = "TagNotFound"]_vars

\* ------------------------------------------------------------- change twice
\* The last command was change_quote(i, q) on a quote that is in the quote tree.
ChangedLive == last.op = "change" /\ to_string(last.index) \in DOMAIN db.quote

\* C11: in every reachable state, for a live index i and a quote q, a second
\* change_quote(i, q) right after the first leaves the five index trees, the
\* quote tree and the counter as the first left them.
ChangeTwiceIsChangeOnce ==
  ChangedLive => change_quote(db, last.index, last.quote).db = db

\* ------------------------------------------------------------------ codec
\* All sequences over S of length at most n.
RECURSIVE SeqsUpTo(_, _)
SeqsUpTo(S, n) ==
  IF n = 0 THEN {<<>>}
  ELSE LET shorter == SeqsUpTo(S, n - 1)
       IN shorter \cup {Append(x, v) : x \in {y \in shorter : Len(y) = n - 1}, v \in S}

\* The evaluation of function fn on arg, for the input drawn at the start.
Applied(fn, arg, res) == [fn |-> fn, arg |-> arg, res |-> res, input |-> calc.input]

store_vars == <<db, last, used, adds_only, added>>

\* An index list is drawn; make_indices_string encodes it; split_indices_usize
\* decodes the bytes.
InitCodec ==
  /\ InitStore
  /\ calc \in {[fn |-> "input", arg |-> None, res |-> None, input |-> index_list] :
                 index_list \in SeqsUpTo(0..MaxIndex, MaxLen)}

Apply_make_indices_string ==
  /\ calc.fn = "input"
  /\ calc' = Applied("make_indices_string", calc.input, make_indices_string(calc.input))
  /\ UNCHANGED store_vars

Apply_split_indices_usize ==
  /\ calc.fn = "make_indices_string"
  /\ calc' = Applied("split_indices_usize", calc.res, split_indices_usize(calc.res))
  /\ UNCHANGED store_vars

NextCodec == Apply_make_indices_string \/ Apply_split_indices_usize

SpecCodec == InitCodec /\ [][NextCodec]_vars

\* C12: for every finite sequence x of non-negative integers, the empty one and
\* those with repeated values included, split_indices_usize(make_indices_string(x))
\* succeeds and returns exactly x.
CodecRoundTrip ==
  calc.fn = "split_indices_usize" => calc.res = [ok |-> TRUE, val |-> calc.input]

\* ------------------------------------------------------------ missing index
\* C13: delete_quote(i) and change_quote(i, q) with an index i that is not a
\* key of the quote tree fail with QuoteNotFound and leave the quote tree, the
\* five index trees and the counter unchanged.
MissingIndexFailsUnchanged ==
  [][(last'.op \in {"delete", "change"} /\ to_string(last'.index) \notin DOMAIN db.quote)
       => (last'.res = "QuoteNotFound" /\ db' = db)]_vars

\* A delete of an index that is not stored, in a store that holds other quotes.
DeleteOfMissingIndex ==
  /\ last.op = "delete" /\ last.res = "QuoteNotFound"
  /\ to_string(last.index) \notin DOMAIN db.quote
  /\ DOMAIN db.quote # {}

\* ------------------------------------------------------------ canonical keys
\* The quotes of a JSON file written by hand: the fields are stored as they
\* stand in the file, here author "a", book "x", tag "t" in lower case.
JsonQuotes == {Quote(index, <<120>>, <<97>>, <<(<<116>>)>>) : index \in 1..MaxId}

\* What the user types for the same author and book.
JsonUserInputs == {[author |-> <<97>>, title |-> <<120>>, tags |-> <<116>>]}

\* Quoth::run, "import" of a JSON file whose quotes were not made by Quote::new.
Quoth_import_json == \E quote \in JsonQuotes : AddStep("import", quote)

NextJson ==
  \/ Quoth_quoth(JsonUserInputs)
  \/ Quoth_import_json
  \/ Quoth_delete_quote
  \/ Quoth_change_quote(JsonUserInputs)

SpecJson == Init /\ [][NextJson]_vars

canonical(key) == camel_case_phrase(key) = key

\* C14: every key of author_quote, author_book, book_quote and book_author is a
\* fixed point of camel_case_phrase for every quote added through add_quote,
\* and the quote just added is returned by get_author_quotes and
\* get_book_quotes for the canonical form of its author and book.
AddedKeysCanonical ==
  /\ \A key \in DOMAIN db.author_quote \cup DOMAIN db.author_book
                  \cup DOMAIN db.book_quote \cup DOMAIN db.book_author : canonical(key)
  /\ (last.op \in {"quoth", "import"} /\ last.res = "Ok") =>
       /\ \E i \in DOMAIN get_author_quotes(db, camel_case_phrase(last.quote.author)).val :
            get_author_quotes(db, camel_case_phrase(last.quote.author)).val[i] = last.index
       /\ \E i \in DOMAIN get_book_quotes(db, camel_case_phrase(last.quote.book)).val :
            get_book_quotes(db, camel_case_phrase(last.quote.book)).val[i] = last.index

\* ---------------------------------------------------------------- counter
\* C15: each successful add_quote increases the quote_index counter by exactly
\* one; delete_quote and change_quote leave it unchanged (the queries only
\* read the trees).
CounterStepsByAddOnly ==
  [][/\ (IsAdd /\ last'.res = "Ok") => get_quote_index(db') = get_quote_index(db) + 1
     /\ last'.op \in {"delete", "change"} => get_quote_index(db') = get_quote_index(db)]_vars

\* A change has succeeded after the counter had moved on past the stored quotes.
ChangedWithCounterAhead ==
  /\ last.op = "change" /\ last.res = "Ok"
  /\ get_quote_index(db) = MaxCounter
  /\ Cardinality(DOMAIN db.quote) < MaxCounter

\* ------------------------------------------------------------ aggregation
\* A date is <<month, day>>, months numbered from 0; DateTimes are at midnight.
\* Date::with_day(1): the first day of the date's month.
with_day_1(date) == <<date[1], 1>>

date_le(a, b) == a[1] < b[1] \/ (a[1] = b[1] /\ a[2] <= b[2])
date_lt(a, b) == date_le(a, b) /\ a # b

\* A date range closed at both ends.
in_date_range_inclusive(quote, from_date, to_date) ==
  date_le(from_date, quote.date) /\ date_le(quote.date, to_date)

\* Quote::in_date_range.
in_date_range(quote, from_date, to_date) ==
  date_le(from_date, quote.date) /\ date_lt(quote.date, to_date)

\* The order of sled keys: byte strings compared lexicographically.
RECURSIVE key_less(_, _)
key_less(a, b) ==
  IF a = <<>> THEN b # <<>>
  ELSE IF b = <<>> THEN FALSE
  ELSE IF Head(a) # Head(b) THEN Head(a) < Head(b)
  ELSE key_less(Tail(a), Tail(b))

\* sled::Tree::iter: the keys in ascending order.
RECURSIVE tree_iter(_, _)
tree_iter(tree, keys) ==
  IF keys = {} THEN <<>>
  ELSE LET first == CHOOSE k \in keys : \A j \in keys \ {k} : key_less(k, j)
       IN <<tree[first]>> \o tree_iter(tree, keys \ {first})

list_quotes_in_date_range(d, from_date, to_date) ==
  SelectSeq(tree_iter(d.quote, DOMAIN d.quote),
            LAMBDA quote : in_date_range(quote, from_date, to_date))

\* HashMap: a function on the keys present.
hash_insert(map, key, value) ==
  [k \in DOMAIN map \cup {key} |-> IF k = key THEN value ELSE map[k]]

\* *map.entry(key).or_insert(0) += 1
hash_increment(map, key) ==
  hash_insert(map, key, (IF key \in DOMAIN map THEN map[key] ELSE 0) + 1)

\* The first loop of get_quote_and_book_counts_per_month.
RECURSIVE count_quotes(_, _, _)
count_quotes(quotes, quote_counts, book_dates) ==
  IF quotes = <<>> THEN [quote_counts |-> quote_counts, book_dates |-> book_dates]
  ELSE LET quote == Head(quotes)
       IN count_quotes(Tail(quotes),
                       hash_increment(quote_counts, with_day_1(quote.date)),
                       hash_insert(book_dates, quote.book, with_day_1(quote.date)))

\* The second loop: one count per book, in the month book_dates gives it.
RECURSIVE count_books(_, _, _)
count_books(book_dates, books, book_counts) ==
  IF books = {} THEN book_counts
  ELSE LET book == CHOOSE b \in books : TRUE
       IN count_books(book_dates, books \ {book},
                      hash_increment(book_counts, book_dates[book]))

get_quote_and_book_counts_per_month(d, from_date, to_date) ==
  LET counted == count_quotes(list_quotes_in_date_range(d, from_date, to_date),
                              EmptyTree, EmptyTree)
  IN [quote_counts |-> counted.quote_counts,
      book_counts |-> count_books(counted.book_dates, DOMAIN counted.book_dates, EmptyTree)]

\* The days of a month the dated quotes fall on, and the dates that gives.
Days == {1, 15}
Dates == {<<month, day>> : month \in 0..MaxMonth, day \in Days}

\* Quote::new with its date argument: the quote of one row of a TSV file.
Quote_dated(index, title, author, tags, date) ==
  [date |-> date] @@ Quote_new(index, title, author, tags)

\* Quoth::import of TSV rows with a DATE column: row after row gets the next
\* index; at most MaxId rows are imported before the counts are asked for.
Quoth_import_dated ==
  /\ calc = NoCalc
  /\ get_quote_index(db) < MaxId
  /\ \E title \in {<<120>>, <<89>>}, date \in Dates :
       AddStep("import",
               Quote_dated(get_quote_index(db) + 1, title, <<97>>, <<116>>, date))

\* Quoth::stats asks for the counts between two dates.
Apply_counts_per_month ==
  /\ calc = NoCalc
  /\ \E from_date \in Dates, to_date \in Dates :
       calc' = Applied("get_quote_and_book_counts_per_month",
                       [from_date |-> from_date, to_date |-> to_date],
                       get_quote_and_book_counts_per_month(db, from_date, to_date))
  /\ UNCHANGED store_vars

NextCounts == Quoth_import_dated \/ Apply_counts_per_month

SpecCounts == Init /\ [][NextCounts]_vars

\* The stored quotes dated from <= date < to, when the counts have been taken.
counted_quotes ==
  {db.quote[k] : k \in {j \in DOMAIN db.quote :
      /\ date_le(calc.arg.from_date, db.quote[j].date)
      /\ date_lt(db.quote[j].date, calc.arg.to_date)}}

Counted == calc.fn = "get_quote_and_book_counts_per_month"

\* C16: counts_per_month(from, to) gives as quote-count, for each first of
\* month m, the number of stored quotes with from <= date < to dated in month
\* m; months without such a quote have no entry, so the counts sum to the
\* number of in-range quotes.
QuoteCountsPerMonth ==
  Counted =>
    LET months == {with_day_1(quote.date) : quote \in counted_quotes}
    IN calc.res.quote_counts =
         [m \in months |->
            Cardinality({quote \in counted_quotes : with_day_1(quote.date) = m})]

\* Counts taken with one quote dated exactly from (counted) and another dated
\* exactly to (not counted).
CountedAtBothEnds ==
  /\ Counted
  /\ \E quote \in counted_quotes : quote.date = calc.arg.from_date
  /\ \E k \in DOMAIN db.quote : db.quote[k].date = calc.arg.to_date
  /\ calc.res.quote_counts # EmptyTree

\* The latest date among the counted quotes of a book.
last_date(book) ==
  CHOOSE date \in {quote.date : quote \in {q \in counted_quotes : q.book = book}} :
    \A quote \in {q \in counted_quotes : q.book = book} : date_le(quote.date, date)

\* C17: in the book-count of counts_per_month(from, to) each distinct book among
\* the in-range quotes is counted exactly once, in the month of its last-dated
\* in-range quote, whatever the indices of the quotes and the order of iteration.
BookCountsInLastDatedMonth ==
  Counted =>
    LET books == {quote.book : quote \in counted_quotes}
        months == {with_day_1(last_date(book)) : book \in books}
    IN calc.res.book_counts =
         [m \in months |-> Cardinality({book \in books : with_day_1(last_date(book)) = m})]

\* ------------------------------------------------------------ author counts

\* Every author reported with as many books as quotes.
get_author_counts_books_as_quotes(d) ==
  LET quotes == [a \in DOMAIN d.author_quote |-> split_indices_usize(d.author_quote[a])]
  IN IF \E a \in DOMAIN quotes : ~quotes[a].ok
     THEN [ok |-> FALSE, val |-> "OutOfCheeseError"]
     ELSE [ok |-> TRUE,
           val |-> [a \in DOMAIN quotes |->
                      [books |-> Len(quotes[a].val), quotes |-> Len(quotes[a].val)]]]

\* Trees::get_author_counts: the books of every key of author_book and the
\* quotes of every key of author_quote are counted; the result has one entry
\* per key of author_quote.
get_author_counts(d) ==
  LET author_books ==
        [a \in DOMAIN d.author_book |-> Len(split_values_string(d.author_book[a]))]
      quotes == [a \in DOMAIN d.author_quote |-> split_indices_usize(d.author_quote[a])]
  IN IF \E a \in DOMAIN quotes : ~quotes[a].ok
     THEN [ok |-> FALSE, val |-> "OutOfCheeseError"]
     ELSE [ok |-> TRUE,
           val |-> [a \in DOMAIN quotes |->
                      [books |-> IF a \in DOMAIN author_books THEN author_books[a] ELSE 0,
                       quotes |-> Len(quotes[a].val)]]]

\* Quoth::stats asks for the counts per author.
Apply_get_author_counts ==
  /\ calc = NoCalc
  /\ calc' = Applied("get_author_counts", None, get_author_counts(db))
  /\ UNCHANGED store_vars

NextStats ==
  \/ calc = NoCalc /\ Quoth_quoth(UserInputs)
  \/ calc = NoCalc /\ Quoth_delete_quote
  \/ Apply_get_author_counts

SpecStats == Init /\ [][NextStats]_vars

\* The number of entries stored under a key of a tree, 0 for a missing key.
count_at(tree, key) ==
  IF key \in DOMAIN tree
  THEN Cardinality(DOMAIN split_values_string(tree[key]))
  ELSE 0

TreeNames ==
  <<"default", "quote", "author_quote", "author_book", "book_quote", "book_author",
    "tag_quote">>

\* The store Trees::read finds in a directory without a database.
EmptyDb ==
  [default |-> EmptyTree, quote |-> EmptyTree, author_quote |-> EmptyTree,
   author_book |-> EmptyTree, book_quote |-> EmptyTree,
   book_author |-> EmptyTree, tag_quote |-> EmptyTree]

\* The keys of a tree in the order of sled::Tree::iter.
RECURSIVE keys_in_order(_)
keys_in_order(keys) ==
  IF keys = {} THEN <<>>
  ELSE LET first == CHOOSE k \in keys : \A j \in keys \ {k} : key_less(k, j)
       IN <<first>> \o keys_in_order(keys \ {first})

\* sled::Db::export: every key and value of every tree.
RECURSIVE export_from(_, _)
export_from(d, n) ==
  IF n > Len(TreeNames) THEN <<>>
  ELSE LET name == TreeNames[n]
           keys == keys_in_order(DOMAIN d[name])
       IN [i \in 1..Len(keys) |->
             [tree |-> name, key |-> keys[i], value |-> d[name][keys[i]]]]
          \o export_from(d, n + 1)

export(d) == export_from(d, 1)

\* sled::Db::import: insert after insert; it panics when an insert fails (here:
\* the insert number fail_at) and, after the insert, when the key was there.
RECURSIVE import_from(_, _, _, _)
import_from(new, entries, n, fail_at) ==
  IF entries = <<>> THEN [db |-> new, panic |-> FALSE, inserts |-> n - 1]
  ELSE IF n = fail_at THEN [db |-> new, panic |-> TRUE, inserts |-> n - 1]
  ELSE LET e == Head(entries)
           inserted == [new EXCEPT ![e.tree] = tree_insert(@, e.key, e.value)]
       IN IF e.key \in DOMAIN new[e.tree]
          THEN [db |-> inserted, panic |-> TRUE, inserts |-> n]
          ELSE import_from(inserted, Tail(entries), n + 1, fail_at)

import(new, entries, fail_at) == import_from(new, entries, 1, fail_at)

\* Trees::relocate with the old directory removed before the import.
relocate_clear_first(old, new, fail_at) ==
  LET imported == import(new, export(old), fail_at)
  IN IF fail_at = 0 THEN [old |-> old, new |-> new, err |-> "Err"]
     ELSE IF imported.panic THEN [old |-> EmptyDb, new |-> imported.db, err |-> "panic"]
     ELSE [old |-> EmptyDb, new |-> imported.db, err |-> "Ok"]

\* Trees::relocate. fail_at numbers the step that fails: 0 for Trees::read, n for
\* the insert number n of the import, the one after the last insert for
\* Trees::clear; a larger number for none.
relocate(old, new, fail_at) ==
  LET imported == import(new, export(old), fail_at)
  IN IF fail_at = 0 THEN [old |-> old, new |-> new, err |-> "Err"]
     ELSE IF imported.panic THEN [old |-> old, new |-> imported.db, err |-> "panic"]
     ELSE IF fail_at = imported.inserts + 1
          THEN [old |-> old, new |-> imported.db, err |-> "Err"]
          ELSE [old |-> EmptyDb, new |-> imported.db, err |-> "Ok"]

\* The number of keys in the trees of a store.
RECURSIVE size_from(_, _)
size_from(d, n) ==
  IF n > Len(TreeNames) THEN 0
  ELSE Cardinality(DOMAIN d[TreeNames[n]]) + size_from(d, n + 1)

size(d) == size_from(d, 1)

\* What the new directory holds: nothing, or the database of an earlier quoth.
NewStores == {EmptyDb, add_quote(EmptyDb, Quote_new(1, <<120>>, <<97>>, <<116>>)).db}

\* Quoth::relocate: the trees are moved to the new directory.
Quoth_relocate ==
  /\ calc = NoCalc
  /\ \E new \in NewStores, fail_at \in 0..(size(db) + 2) :
       LET r == relocate(db, new, fail_at)
       IN /\ db' = r.old
          /\ last' = Call("relocate", 0, None, r)
          /\ calc' = [fn |-> "relocate", arg |-> new, res |-> r, input |-> db]
  /\ UNCHANGED <<used, adds_only, added>>

NextRelocate == (calc = NoCalc /\ NextJson) \/ Quoth_relocate

SpecRelocate == Init /\ [][NextRelocate]_vars

\* Every key of every tree of the store a has the same value in the store b.
copied(a, b) ==
  \A n \in 1..Len(TreeNames) :
    \A k \in DOMAIN a[TreeNames[n]] :
      k \in DOMAIN b[TreeNames[n]] /\ b[TreeNames[n]][k] = a[TreeNames[n]][k]

\* C19: relocate(old, new) copies every key of every index tree, of the quote
\* tree and the counter to the new store, and clears the old store only after
\* the whole copy has succeeded: when the copy fails part-way the old store is
\* as it was.
RelocateCopiesThenClears ==
  calc.fn = "relocate" =>
    /\ calc.res.err = "Ok" => copied(calc.input, calc.res.new) /\ db = EmptyDb
    /\ db # calc.input => copied(calc.input, calc.res.new)
    /\ calc.res.err = "panic" => db = calc.input

\* A store of two quotes relocated to an empty directory.
RelocatedTwoQuotes ==
  /\ calc.fn = "relocate"
  /\ calc.res.err = "Ok"
  /\ Cardinality(DOMAIN calc.input.quote) = 2
  /\ calc.arg = EmptyDb
  /\ db = EmptyDb

\* The copy of a store of two quotes failed after the first quote was copied.
RelocateFailedPartWay ==
  /\ calc.fn = "relocate"
  /\ calc.res.err = "panic"
  /\ Cardinality(DOMAIN calc.input.quote) = 2
  /\ Cardinality(DOMAIN calc.res.new.quote) = 1
  /\ calc.res.new.author_quote = EmptyTree

\* ----------------------------------------------------------------- new book

\* The quote's book is not listed under the quote's author in author_book.
NewBookFor(d, quote) == quote.book \notin ids_at(d.author_book, quote.author)

\* The book is listed under the author, holds this index alone, and is the author's.
LinkedAsNew(d, quote) ==
  /\ quote.book \in ids_at(d.author_book, quote.author)
  /\ tree_get(d.book_quote, quote.book) = Some(to_string(quote.index))
  /\ tree_get(d.book_author, quote.book) = Some(quote.author)

\* The store change_quote re-indexes the new quote into: the old quote unindexed.
Unindexed == unindex(db, db.quote[to_string(last'.index)], last'.index).db

\* C20: in add_quote, and in the re-indexing of change_quote, when the quote's
\* book is not yet listed in author_book for the quote's author, the book is
\* merged into author_book, book_quote[book] becomes exactly the new index (not
\* appended to a value already there) and book_author[book] becomes this author.
NewBookIsLinkedAlone ==
  [][/\ (IsAdd /\ last'.res = "Ok" /\ NewBookFor(db, last'.quote))
          => LinkedAsNew(db', last'.quote)
     /\ (last'.op = "change" /\ last'.res = "Ok" /\ NewBookFor(Unindexed, last'.quote))
          => LinkedAsNew(db', last'.quote)]_vars

\* ------------------------------------------------------------ author cascade

\* The step deletes the only index listed under the quote's author.
DeletesAuthorsLast ==
  /\ IsDelete
  /\ get_author_quotes(db, deleted.author).err = "Ok"
  /\ remaining(db.author_quote, deleted.author) = <<>>

\* C21: when delete_quote removes the last index of an author, every book
\* listed in author_book for that author leaves book_quote and book_author,
\* whatever indices the book entries still hold, and the author leaves
\* author_quote and author_book.
DeleteLastCascades ==
  [][DeletesAuthorsLast =>
       /\ \A b \in ids_at(db.author_book, deleted.author) :
            b \notin DOMAIN db'.book_quote /\ b \notin DOMAIN db'.book_author
       /\ deleted.author \notin DOMAIN db'.author_quote
       /\ deleted.author \notin DOMAIN db'.author_book]_vars

\* A delete has removed an author together with a book entry that still held
\* the index of a quote that remains.
DeletedAuthorWithHeldBook ==
  /\ last.op = "delete"
  /\ last.res = "Ok"
  /\ last.quote # None
  /\ last.quote.author \notin DOMAIN db.author_quote
  /\ last.quote.author \notin DOMAIN db.author_book
  /\ \E k \in DOMAIN db.quote :
       db.quote[k].book = last.quote.book /\ db.quote[k].book \notin DOMAIN db.book_quote

\* ------------------------------------------------------------ write by write
\* The handlers again, statement by statement.  While a call is in progress calc
\* holds the handler (fn), its arguments and the quote the index held when the
\* call began (arg), the trees written so far (res) and, in input, the
\* statement to run next (pc), the tags still to merge and the error a `?` has
\* returned.

\* The statements of add_quote in the order they run.
add_quote_counter_first ==
  <<"increment_quote_index", "quote_insert", "author_quote_merge", "author_book_merge",
    "book_quote_merge", "book_author_insert", "tag_merge", "return">>

add_quote_stages ==
  <<"quote_insert", "author_quote_merge", "author_book_merge", "book_quote_merge",
    "book_author_insert", "tag_merge", "increment_quote_index", "return">>

\* The statements of change_quote that follow the unindexing of the old quote.
change_quote_stages ==
  <<"author_quote_merge", "author_book_merge", "book_quote_merge", "book_author_insert",
    "tag_merge", "quote_insert", "return">>

\* change_quote taking the old quote out of the quote tree as delete_quote does.
change_quote_removes_first == "remove_quote"

\* The first statement of change_quote: get_quote, which reads only.
change_quote_first == "get_quote"

first_stage(fn) ==
  CASE fn = "add_quote" -> add_quote_stages[1]
    [] fn = "delete_quote" -> "remove_quote"
    [] fn = "change_quote" -> change_quote_first

\* The statement after pc in a straight-line sequence of statements.
succ(stages, pc) ==
  stages[(CHOOSE i \in 1..(Len(stages) - 1) : stages[i] = pc) + 1]

\* The statement after pc where add_quote and change_quote index a quote.
next_stage(fn, pc) ==
  IF fn = "add_quote" THEN succ(add_quote_stages, pc) ELSE succ(change_quote_stages, pc)

\* The statement after the unindexing of the old quote.
after_unindex(fn) == IF fn = "delete_quote" THEN "return" ELSE change_quote_stages[1]

Handlers == {"add_quote", "delete_quote", "change_quote"}

InCall(fn, index, quote) ==
  [fn |-> fn,
   arg |-> [index |-> index, quote |-> quote,
            old |-> tree_get(db.quote, to_string(index)), start |-> db],
   res |-> <<>>,
   input |-> [pc |-> first_stage(fn), tags |-> <<>>, err |-> "Ok"]]

Begin_add_quote ==
  /\ calc = NoCalc
  /\ get_quote_index(db) < MaxId
  /\ \E input \in UserInputs :
       calc' = InCall("add_quote", get_quote_index(db) + 1,
                      Quote_from_user(get_quote_index(db) + 1, input))
  /\ UNCHANGED store_vars

Begin_delete_quote ==
  /\ calc = NoCalc
  /\ \E index \in 1..MaxId : calc' = InCall("delete_quote", index, None)
  /\ UNCHANGED store_vars

Begin_change_quote ==
  /\ calc = NoCalc
  /\ \E index \in 1..MaxId, input \in UserInputs :
       calc' = InCall("change_quote", index, Quote_from_user(index, input))
  /\ UNCHANGED store_vars

At(pc) == calc.fn \in Handlers /\ calc.input.pc = pc

\* One statement has run: the store it leaves, the trees it wrote, the
\* statement that follows and the error it returned, if any.
Ran(d, trees, next, err) ==
  /\ db' = d
  /\ calc' = [calc EXCEPT !.res = @ \o trees,
                          !.input.pc = IF err = "Ok" THEN next ELSE "return",
                          !.input.err = err]
  /\ UNCHANGED <<last, used, adds_only, added>>

index_key == to_string(calc.arg.index)

\* quote_tree.insert: the first statement of add_quote, the last of change_quote.
Stmt_quote_insert ==
  /\ At("quote_insert")
  /\ Ran([db EXCEPT !.quote = tree_insert(@, index_key, calc.arg.quote)], <<"quote">>,
         next_stage(calc.fn, "quote_insert"), "Ok")

Stmt_author_quote_merge ==
  /\ At("author_quote_merge")
  /\ Ran([db EXCEPT !.author_quote = tree_merge(@, calc.arg.quote.author, index_key)],
         <<"author_quote">>, next_stage(calc.fn, "author_quote_merge"), "Ok")

\* The title is inserted for a new author, merged when it is not among the
\* author's titles, and otherwise left alone.
Stmt_author_book_merge ==
  /\ At("author_book_merge")
  /\ LET author_key == calc.arg.quote.author
         book_key == calc.arg.quote.book
         books == tree_get(db.author_book, author_key)
     IN IF books = None
        THEN Ran([db EXCEPT !.author_book = tree_insert(@, author_key, book_key)],
                 <<"author_book">>, next_stage(calc.fn, "author_book_merge"), "Ok")
        ELSE IF \E i \in 1..Len(split_values_string(books[1])) :
                     split_values_string(books[1])[i] = book_key
        THEN Ran(db, <<>>, next_stage(calc.fn, "author_book_merge"), "Ok")
        ELSE Ran([db EXCEPT !.author_book = tree_merge(@, author_key, book_key)],
                 <<"author_book">>, next_stage(calc.fn, "author_book_merge"), "Ok")

Stmt_book_quote_merge ==
  /\ At("book_quote_merge")
  /\ Ran([db EXCEPT !.book_quote = tree_merge(@, calc.arg.quote.book, index_key)],
         <<"book_quote">>, next_stage(calc.fn, "book_quote_merge"), "Ok")

\* The last statement of add_author_and_book; the loop over the tags follows.
Stmt_book_author_insert ==
  /\ At("book_author_insert")
  /\ db' = [db EXCEPT !.book_author =
              tree_insert(@, calc.arg.quote.book, calc.arg.quote.author)]
  /\ calc' = [calc EXCEPT !.res = Append(@, "book_author"),
                          !.input.pc = next_stage(calc.fn, "book_author_insert"),
                          !.input.tags = calc.arg.quote.tags]
  /\ UNCHANGED <<last, used, adds_only, added>>

\* One turn of the loop over the tags of the quote, or the end of the loop.
Stmt_tag_merge ==
  /\ At("tag_merge")
  /\ IF calc.input.tags = <<>>
     THEN Ran(db, <<>>, next_stage(calc.fn, "tag_merge"), "Ok")
     ELSE /\ db' = [db EXCEPT !.tag_quote =
                      tree_merge(@, Head(calc.input.tags), index_key)]
          /\ calc' = [calc EXCEPT !.res = Append(@, "tag_quote"),
                                  !.input.tags = Tail(@)]
          /\ UNCHANGED <<last, used, adds_only, added>>

Stmt_increment_quote_index ==
  /\ At("increment_quote_index")
  /\ Ran(increment_quote_index(db), <<"default">>,
         next_stage(calc.fn, "increment_quote_index"), "Ok")

\* remove_quote: the first statement of delete_quote.
Stmt_remove_quote ==
  /\ At("remove_quote")
  /\ IF remove_quote(db, calc.arg.index).err = "Ok"
     THEN Ran(remove_quote(db, calc.arg.index).db, <<"quote">>, "author_quote_filter", "Ok")
     ELSE Ran(db, <<>>, "return", remove_quote(db, calc.arg.index).err)

\* get_quote: the first statement of change_quote.
Stmt_get_quote ==
  /\ At("get_quote")
  /\ Ran(db, <<>>, "author_quote_filter", get_quote(db, calc.arg.index).err)

\* delete_from_author_and_book: the index leaves the author's list, and the
\* author goes when the list is empty.
Stmt_author_quote_filter ==
  /\ At("author_quote_filter")
  /\ LET author_key == calc.arg.old[1].author
         indices == get_author_quotes(db, author_key)
         new_indices == Without(indices.val, calc.arg.index)
     IN IF indices.err # "Ok" THEN Ran(db, <<>>, "return", indices.err)
        ELSE IF new_indices = <<>> THEN Ran(db, <<>>, "author_quote_remove", "Ok")
        ELSE Ran([db EXCEPT !.author_quote =
                    tree_insert(@, author_key, make_indices_string(new_indices))],
                 <<"author_quote">>, "book_quote_filter", "Ok")

\* delete_author: the author leaves author_quote.
Stmt_author_quote_remove ==
  /\ At("author_quote_remove")
  /\ Ran([db EXCEPT !.author_quote = tree_remove(@, calc.arg.old[1].author)],
         <<"author_quote">>, "book_quote_batch", "Ok")

\* delete_author: the author's titles are read and leave book_quote.
Stmt_book_quote_batch ==
  /\ At("book_quote_batch")
  /\ LET author_key == calc.arg.old[1].author
     IN IF author_key \notin DOMAIN db.author_book
        THEN Ran(db, <<>>, "return", "AuthorNotFound")
        ELSE Ran([db EXCEPT !.book_quote =
                    remove_keys(@, split_values_string(db.author_book[author_key]))],
                 <<"book_quote">>, "book_author_batch", "Ok")

Stmt_book_author_batch ==
  /\ At("book_author_batch")
  /\ Ran([db EXCEPT !.book_author =
            remove_keys(@, split_values_string(db.author_book[calc.arg.old[1].author]))],
         <<"book_author">>, "author_book_remove", "Ok")

Stmt_author_book_remove ==
  /\ At("author_book_remove")
  /\ Ran([db EXCEPT !.author_book = tree_remove(@, calc.arg.old[1].author)],
         <<"author_book">>, "tag_batch", "Ok")

\* delete_from_book: the index leaves the book's list, and the book leaves
\* book_quote when the list is empty.
Stmt_book_quote_filter ==
  /\ At("book_quote_filter")
  /\ LET book_key == calc.arg.old[1].book
         indices == get_book_quotes(db, book_key)
         new_indices == Without(indices.val, calc.arg.index)
     IN IF indices.err # "Ok" THEN Ran(db, <<>>, "return", indices.err)
        ELSE IF new_indices = <<>>
        THEN Ran([db EXCEPT !.book_quote = tree_remove(@, book_key)],
                 <<"book_quote">>, "book_author_remove", "Ok")
        ELSE Ran([db EXCEPT !.book_quote =
                    tree_insert(@, book_key, make_indices_string(new_indices))],
                 <<"book_quote">>, "tag_batch", "Ok")

Stmt_book_author_remove ==
  /\ At("book_author_remove")
  /\ Ran([db EXCEPT !.book_author = tree_remove(@, calc.arg.old[1].book)],
         <<"book_author">>, "tag_batch", "Ok")

\* The loop of delete_from_tag over the old tags, which only fills the batch,
\* and apply_batch.
Stmt_tag_batch ==
  /\ At("tag_batch")
  /\ LET t == delete_from_tags(db, calc.arg.old[1].tags, calc.arg.index, <<>>)
     IN IF t.err # "Ok" THEN Ran(db, <<>>, "return", t.err)
        ELSE Ran([db EXCEPT !.tag_quote = apply_batch(@, t.batch)], <<"tag_quote">>,
                 after_unindex(calc.fn), "Ok")

\* The call in progress returns.
Return ==
  /\ At("return")
  /\ calc' = NoCalc
  /\ last' = [op |-> calc.fn, index |-> calc.arg.index, quote |-> None,
              res |-> calc.input.err]
  /\ used' = used \cup indices_of(db.quote)
  /\ adds_only' = FALSE
  /\ added' = <<>>
  /\ db' = db

NextWrites ==
  \/ Begin_add_quote
  \/ Begin_delete_quote
  \/ Begin_change_quote
  \/ Stmt_quote_insert
  \/ Stmt_author_quote_merge
  \/ Stmt_author_book_merge
  \/ Stmt_book_quote_merge
  \/ Stmt_book_author_insert
  \/ Stmt_tag_merge
  \/ Stmt_increment_quote_index
  \/ Stmt_remove_quote
  \/ Stmt_get_quote
  \/ Stmt_author_quote_filter
  \/ Stmt_author_quote_remove
  \/ Stmt_book_quote_batch
  \/ Stmt_book_author_batch
  \/ Stmt_author_book_remove
  \/ Stmt_book_quote_filter
  \/ Stmt_book_author_remove
  \/ Stmt_tag_batch
  \/ Return

SpecWrites == Init /\ [][NextWrites]_vars

\* The place of a tree in the order add_quote writes in.
add_rank(tree) ==
  CASE tree = "quote" -> 1
    [] tree \in {"author_quote", "author_book", "book_quote", "book_author"} -> 2
    [] tree = "tag_quote" -> 3
    [] tree = "default" -> 4

Adding == calc.fn = "add_quote"

\* The tree has been written by the call in progress.
Written(tree) == \E i \in 1..Len(calc.res) : calc.res[i] = tree

\* C22: within add_quote the quote tree is written first, then the author and
\* book trees, then the tag tree, and the counter last; no index tree lists the
\* new index before the quote tree holds it.
AddWritesInOrder ==
  Adding =>
    /\ \A i, j \in 1..Len(calc.res) : i < j => add_rank(calc.res[i]) <= add_rank(calc.res[j])
    /\ calc.res # <<>> => calc.res[1] = "quote"
    /\ Written("default") <=> calc.input.pc = "return"
    /\ index_key \in IndexIds => index_key \in DOMAIN db.quote

\* An add_quote of a quote with two tags has written everything but the counter.
AddedAllButCounter ==
  /\ Adding
  /\ Len(calc.arg.quote.tags) = 2
  /\ calc.input.pc = "increment_quote_index"
  /\ get_quote_index(db) < calc.arg.index
  /\ Cardinality({t \in DOMAIN db.tag_quote : index_key \in segments(db.tag_quote[t])}) = 2
  /\ index_key \in DOMAIN db.quote

\* A call on an index that was in the quote tree when the call began.
OnStored(fn) == calc.fn = fn /\ calc.arg.old # None

\* C23: within delete_quote the index trees are updated first and the quote
\* tree entry is removed last: at every intermediate step in which the quote is
\* already absent from the quote tree, no index tree lists its index.
DeleteRemovesRecordLast ==
  OnStored("delete_quote") =>
    /\ Written("quote") => calc.input.pc = "return"
    /\ index_key \notin DOMAIN db.quote => index_key \notin IndexIds

\* C24: during change_quote(i, q) the quote tree entry of i is never removed:
\* it holds the old quote while the old quote is unindexed and the new one
\* indexed, and is overwritten with q only after every index tree is updated.
ChangeKeepsRecord ==
  OnStored("change_quote") =>
    /\ index_key \in DOMAIN db.quote
    /\ IF Written("quote")
       THEN db.quote[index_key] = calc.arg.quote /\ calc.input.pc = "return"
       ELSE db.quote[index_key] = calc.arg.old[1]

\* A change_quote has unindexed the old quote, which the quote tree still holds.
ChangeUnindexedOld ==
  /\ OnStored("change_quote")
  /\ calc.arg.old[1] # calc.arg.quote
  /\ calc.input.pc = change_quote_stages[1]
  /\ index_key \notin IndexIds
  /\ db.quote[index_key] = calc.arg.old[1]

\* -------------------------------------------------------------------- merge

\* The values a tree may hold under a key and the additions merged into them:
\* short strings of a digit and the delimiter, the empty string included (the
\* value author_book holds for an author whose only title is blank).
MergeValues == SeqsUpTo({DIGIT_ZERO + 1, SEMICOLON}, 2)

\* The arguments of one call of merge_index, or the indices merged one after
\* another into a key that is absent.
InitMerge ==
  /\ InitStore
  /\ calc \in
       {[fn |-> "input", arg |-> None, res |-> None,
         input |-> [old_indices |-> old_indices, new_index |-> new_index]] :
          old_indices \in {None} \cup {Some(v) : v \in MergeValues},
          new_index \in MergeValues}
       \cup
       {[fn |-> "input", arg |-> None, res |-> None, input |-> [index_list |-> index_list]] :
          index_list \in SeqsUpTo(0..MaxIndex, MaxLen)}

Apply_merge_index ==
  /\ calc.fn = "input"
  /\ "new_index" \in DOMAIN calc.input
  /\ calc' = Applied("merge_index", calc.input,
                     merge_index(<<>>, calc.input.old_indices, calc.input.new_index))
  /\ UNCHANGED store_vars

\* sled::Tree::merge of each index in turn under one key of an empty tree.
RECURSIVE merge_all(_, _, _)
merge_all(tree, key, index_list) ==
  IF index_list = <<>> THEN tree
  ELSE merge_all(tree_merge(tree, key, to_string(Head(index_list))), key, Tail(index_list))

Apply_merge_all ==
  /\ calc.fn = "input"
  /\ "index_list" \in DOMAIN calc.input
  /\ calc' = Applied("merge", calc.input.index_list,
                     tree_get(merge_all(EmptyTree, <<97>>, calc.input.index_list), <<97>>))
  /\ UNCHANGED store_vars

NextMerge == Apply_merge_index \/ Apply_merge_all

SpecMerge == InitMerge /\ [][NextMerge]_vars

\* C25: merge_index returns the addition when the existing value is None and
\* otherwise the existing value followed by the delimiter and the addition; so
\* merging the indices a1, ..., an one after another into an absent key leaves
\* a value that decodes to [a1, ..., an].
MergeAppendsAfterDelimiter ==
  /\ calc.fn = "merge_index" =>
       calc.res = IF calc.arg.old_indices = None
                  THEN Some(calc.arg.new_index)
                  ELSE Some(calc.arg.old_indices[1] \o <<SEMICOLON>> \o calc.arg.new_index)
  /\ (calc.fn = "merge" /\ calc.arg # <<>>) =>
       /\ calc.res # None
       /\ split_indices_usize(calc.res[1]) = [ok |-> TRUE, val |-> calc.arg]

\* --------------------------------------------------------------------- sort

Apply_insertion_sort ==
  /\ calc.fn = "input"
  /\ calc' = Applied("insertion_sort", calc.input, insertion_sort(calc.input))
  /\ UNCHANGED store_vars

NextSort == Apply_insertion_sort

SpecSort == InitCodec /\ [][NextSort]_vars

\* How many times value occurs in array.
occurrences(array, value) == Cardinality({i \in 1..Len(array) : array[i] = value})

\* C26: insertion_sort returns, for every input sequence of indices, a sequence
\* that is sorted in ascending order and is a permutation of the input.
InsertionSortSorts ==
  calc.fn = "insertion_sort" =>
    /\ sorted_ascending(calc.res)
    /\ Len(calc.res) = Len(calc.arg)
    /\ \A value \in 0..MaxIndex :
         occurrences(calc.res, value) = occurrences(calc.arg, value)

\* ------------------------------------------------------------- titles once

\* C27: after any sequence of add_quote and change_quote calls, author_book[a]
\* never holds the same title twice, a title being merged only when it is not
\* found among those listed.
NoTitleTwice ==
  \A a \in DOMAIN db.author_book :
    \A i, j \in 1..Len(split_values_string(db.author_book[a])) :
      i # j => split_values_string(db.author_book[a])[i]
                 # split_values_string(db.author_book[a])[j]

\* A quote has been added or changed to a title its author had listed already,
\* next to another title.
AddedToListedTitle ==
  /\ last.op \in {"quoth", "import", "change"}
  /\ last.res = "Ok"
  /\ last.quote.author \in DOMAIN db.author_book
  /\ Len(split_values_string(db.author_book[last.quote.author])) = 2
  /\ Cardinality(ids_at(db.book_quote, last.quote.book)) >= 2
  /\ \A k \in DOMAIN db.quote : db.quote[k].author = last.quote.author

\* --------------------------------------------------------------- camel case

\* The characters of the phrases: a space, a tab, a lower-case and an
\* upper-case letter.
PhraseChars == {SPACE, 9, 97, 66}

InitCamel ==
  /\ InitStore
  /\ calc \in {[fn |-> "input", arg |-> None, res |-> None, input |-> phrase] :
                 phrase \in SeqsUpTo(PhraseChars, MaxPhrase)}

Apply_camel_case_phrase ==
  /\ calc.fn = "input"
  /\ calc' = Applied("camel_case_phrase", calc.input, camel_case_phrase(calc.input))
  /\ UNCHANGED store_vars

Apply_camel_case_phrase_again ==
  /\ calc.fn = "camel_case_phrase"
  /\ calc' = Applied("camel_case_phrase_again", calc.res, camel_case_phrase(calc.res))
  /\ UNCHANGED store_vars

NextCamel == Apply_camel_case_phrase \/ Apply_camel_case_phrase_again

SpecCamel == InitCamel /\ [][NextCamel]_vars

\* The letters of a phrase in lower case, whitespace left out.
letters(phrase) ==
  [i \in 1..Len(SelectSeq(phrase, LAMBDA c : ~is_whitespace(c))) |->
     to_ascii_lowercase(SelectSeq(phrase, LAMBDA c : ~is_whitespace(c))[i])]

\* Words with an upper-case first character and the rest in lower case, with
\* single spaces between them and nowhere else.
camel_cased(phrase) ==
  \A i \in 1..Len(phrase) :
    IF phrase[i] = SPACE
    THEN i # 1 /\ i # Len(phrase) /\ phrase[i + 1] # SPACE
    ELSE /\ ~is_whitespace(phrase[i])
         /\ IF i = 1 \/ phrase[i - 1] = SPACE
            THEN phrase[i] \notin 97..122
            ELSE phrase[i] \notin 65..90

\* C28: camel_case_phrase is idempotent: for every input string s,
\* camel_case_phrase(camel_case_phrase(s)) = camel_case_phrase(s); the result
\* has the first character of each whitespace-delimited word in upper case, the
\* rest in lower case, and the words joined with single spaces.
CamelCaseIdempotent ==
  /\ calc.fn = "camel_case_phrase" =>
       /\ camel_cased(calc.res)
       /\ letters(calc.res) = letters(calc.arg)
       /\ Len(split_whitespace(calc.res)) = Len(split_whitespace(calc.arg))
  /\ calc.fn = "camel_case_phrase_again" => calc.res = calc.arg

\* camel_case_phrase applied twice to two words in the wrong case with a tab
\* and a space between them.
CamelCasedTwice ==
  /\ calc.fn = "camel_case_phrase_again"
  /\ calc.input = <<97, 9, SPACE, 66>>
  /\ calc.res = <<65, SPACE, 66>>

\* ------------------------------------------------------------ fresh indices

\* Quoth::run without imports: every quote added gets the next index.
NextFresh ==
  \/ Quoth_quoth(UserInputs)
  \/ Quoth_delete_quote
  \/ Quoth_change_quote(UserInputs)

SpecFresh == Init /\ [][NextFresh]_vars

\* C29: in every state reached from an empty store through add_quote with fresh
\* indices, delete_quote and change_quote, a delete_quote(i) or change_quote(i, q)
\* on an index i that is a key of the quote tree succeeds: it never fails with
\* AuthorNotFound, BookNotFound or TagNotFound.
StoredIndexNeverNotFound ==
  [][(last'.op \in {"delete", "change"} /\ to_string(last'.index) \in DOMAIN db.quote)
       => last'.res = "Ok"]_vars

\* C30: whenever delete_quote or change_quote returns an error of any kind, the
\* quote tree and the five index trees are exactly as they were before the
\* call: a failed call leaves no partly applied update.
FailedCallChangesNothing ==
  [][(last'.op \in {"delete", "change"} /\ last'.res # "Ok") => db' = db]_vars

\* ------------------------------------------------------------ found by book

\* The index is among those get_book_quotes returns for the book.
listed_by_book(d, quote) ==
  LET r == get_book_quotes(d, quote.book)
  IN r.err = "Ok" /\ \E i \in 1..Len(r.val) : r.val[i] = quote.index

\* C31: after any sequence of add_quote with fresh indices, delete_quote and
\* change_quote, every quote in the quote tree is found by its book: its index
\* is in get_book_quotes of its book, also after a quote of another author of
\* the same title was deleted.
LiveQuoteFoundByBook ==
  \A id \in DOMAIN db.quote : listed_by_book(db, db.quote[id])

\* -------------------------------------------------------- one author a title

\* What the user types when no title is used with two authors: "a" wrote "x"
\* and "Y", "B" wrote "z".
OwnInputs ==
  { [author |-> <<97>>, title |-> <<120>>, tags |-> <<116>>],
    [author |-> <<97>>, title |-> <<89>>, tags |-> <<116, COMMA, SPACE, 117>>],
    [author |-> <<66>>, title |-> <<122>>, tags |-> <<117>>] }

NextOwn ==
  \/ Quoth_quoth(OwnInputs)
  \/ Quoth_delete_quote
  \/ Quoth_change_quote(OwnInputs)

SpecOwn == Init /\ [][NextOwn]_vars

\* C32: when every add_quote uses a fresh index and no title is used with two
\* authors, after any sequence of add_quote, delete_quote and change_quote the
\* index of every stored quote is listed in book_quote under the quote's book,
\* and book_author of that book is the quote's author.
BookTreesHoldLiveQuote ==
  \A id \in DOMAIN db.quote :
    LET quote == db.quote[id]
    IN /\ id \in ids_at(db.book_quote, quote.book)
       /\ quote.book \in DOMAIN db.book_author
       /\ db.book_author[quote.book] = quote.author

\* A quote was deleted from a book that still holds another, beside a quote of
\* the other author.
DeletedBesideLiveQuotes ==
  /\ last.op = "delete"
  /\ last.res = "Ok"
  /\ \E id \in DOMAIN db.quote : db.quote[id].book = last.quote.book
  /\ \E id \in DOMAIN db.quote : db.quote[id].author # last.quote.author

\* The titles among the stored quotes of the author.
live_books(d, author) ==
  {d.quote[id].book : id \in {k \in DOMAIN d.quote : d.quote[k].author = author}}

\* C33: after any sequence of add_quote, delete_quote and change_quote every
\* title in author_book[a] is the book of a stored quote whose author is a, so
\* the number of books get_author_counts gives for a is the number of distinct
\* books among the stored quotes of a.
NoStaleTitle ==
  /\ \A a \in DOMAIN db.author_book : segments(db.author_book[a]) \subseteq live_books(db, a)
  /\ get_author_counts(db).ok =>
       \A a \in DOMAIN get_author_counts(db).val :
         get_author_counts(db).val[a].books = Cardinality(live_books(db, a))

\* ------------------------------------------------------------ every call Ok

\* Quoth::run without imports, where every call returns Ok.
NextOk ==
  \/ Quoth_quoth(UserInputs) /\ last'.res = "Ok"
  \/ Quoth_delete_quote /\ last'.res = "Ok"
  \/ Quoth_change_quote(UserInputs) /\ last'.res = "Ok"

SpecOk == Init /\ [][NextOk]_vars

\* The indices of the stored quotes of the author.
live_of(d, author) == {id \in DOMAIN d.quote : d.quote[id].author = author}

\* C34: when every add_quote uses a fresh index and every add_quote,
\* delete_quote and change_quote has returned Ok, the indices listed in
\* author_quote[a] are exactly those of the stored quotes whose author is a, an
\* absent key listing none.
AuthorIdsAreLiveQuotes ==
  \A a \in DOMAIN db.author_quote \cup {db.quote[id].author : id \in DOMAIN db.quote} :
    ids_at(db.author_quote, a) = live_of(db, a)

\* One of the three stored quotes of an author was deleted.
DeletedOneOfThree ==
  /\ last.op = "delete"
  /\ last.res = "Ok"
  /\ Cardinality(live_of(db, last.quote.author)) = 2

\* ---------------------------------------------------------------- tag lines

\* What the user types when a tag line names a tag twice.
TagInputs ==
  { [author |-> <<97>>, title |-> <<120>>, tags |-> <<116, COMMA, SPACE, 116>>],
    [author |-> <<66>>, title |-> <<89>>, tags |-> <<116, COMMA, 117>>] }

NextTags ==
  \/ Quoth_quoth(TagInputs)
  \/ Quoth_delete_quote
  \/ Quoth_change_quote(TagInputs)

SpecTags == Init /\ [][NextTags]_vars

\* No index is listed twice under one key of the tree.
once_each(tree) ==
  \A k \in DOMAIN tree :
    \A i, j \in 1..Len(split_values_string(tree[k])) :
      i # j => split_values_string(tree[k])[i] # split_values_string(tree[k])[j]

\* C35: when every add_quote uses a fresh index, no index occurs more than once
\* in any one list of author_quote, book_quote or tag_quote, after any sequence
\* of add_quote, delete_quote and change_quote and whatever tags the quotes carry.
NoIndexTwice ==
  once_each(db.author_quote) /\ once_each(db.book_quote) /\ once_each(db.tag_quote)

\* ------------------------------------------------------------ keyed by index

\* C36: the quote stored under every key of the quote tree carries that key as
\* its index; change_quote(i, q) never stores under i a quote of another index.
KeyIsQuoteIndex ==
  \A k \in DOMAIN db.quote : to_string(db.quote[k].index) = k

\* A change_quote of index 2 has stored the new quote beside quote 1.
ChangedSecondQuote ==
  /\ last.op = "change"
  /\ last.res = "Ok"
  /\ last.index = 2
  /\ db.quote[to_string(2)] = last.quote
  /\ to_string(1) \in DOMAIN db.quote

\* ------------------------------------------------------------------ scroll

Usize == 2 ^ UsizeBits

\* a + b and a - b on usize: with overflow checks (a debug build) an overflow
\* panics, without them (a release build) the result wraps.
usize_add(a, b) == [val |-> (a + b) % Usize, overflow |-> a + b >= Usize]

usize_sub(a, b) == [val |-> (a - b + Usize) % Usize, overflow |-> a < b]

\* One window of Scrollers (the bars, or the rows of the table) and whether an
\* arithmetic overflow has panicked.
Window(start, end, panic) == [start |-> start, end |-> end, panic |-> panic]

\* Key::Right on the bars and Key::Down on the table.
scroll_forward(w, max_index, num, overflow_checks) ==
  LET start1 == usize_add(w.start, 1)
      end1 == usize_add(w.end, 1)
      end2 == IF end1.val >= max_index THEN max_index ELSE end1.val
      shown == usize_sub(end2, start1.val)
      start2 == usize_sub(end2, num)
  IN IF overflow_checks /\ (start1.overflow \/ end1.overflow \/ shown.overflow)
     THEN Window(w.start, w.end, TRUE)
     ELSE IF shown.val < num
     THEN Window(start2.val, end2, overflow_checks /\ start2.overflow)
     ELSE Window(start1.val, end2, FALSE)

\* Key::Left on the bars and Key::Up on the table.
scroll_back(w) ==
  IF w.start > 0
  THEN Window(w.start - 1, usize_sub(w.end, 1).val, FALSE)
  ELSE w

\* Quoth::stats builds the Scrollers: as many bars and rows as the terminal
\* fits, at most as many as there are months and authors.
Scrollers(fit_bars, months, fit_rows, authors, overflow_checks) ==
  [fn |-> "Scrollers",
   arg |-> [num_bars |-> IF fit_bars < months THEN fit_bars ELSE months,
            max_index_bar |-> months,
            num_rows |-> IF fit_rows < authors THEN fit_rows ELSE authors,
            max_index_table |-> authors,
            overflow_checks |-> overflow_checks],
   res |-> [bar |-> Window(0, IF fit_bars < months THEN fit_bars ELSE months, FALSE),
            table |-> Window(0, IF fit_rows < authors THEN fit_rows ELSE authors, FALSE)],
   input |-> "none"]

InitScroll ==
  /\ InitStore
  /\ \E fit_bars, fit_rows \in 0..MaxScroll, months, authors \in 1..MaxScroll,
        overflow_checks \in BOOLEAN :
       calc = Scrollers(fit_bars, months, fit_rows, authors, overflow_checks)

\* The dashboard is running: no panic has ended it.
Scrolling == calc.fn = "Scrollers" /\ ~calc.res.bar.panic /\ ~calc.res.table.panic

Key_Right ==
  /\ Scrolling
  /\ calc' = [calc EXCEPT !.input = "Right",
                !.res.bar = scroll_forward(@, calc.arg.max_index_bar, calc.arg.num_bars,
                                           calc.arg.overflow_checks)]
  /\ UNCHANGED store_vars

Key_Left ==
  /\ Scrolling
  /\ calc' = [calc EXCEPT !.input = "Left", !.res.bar = scroll_back(@)]
  /\ UNCHANGED store_vars

Key_Up ==
  /\ Scrolling
  /\ calc' = [calc EXCEPT !.input = "Up", !.res.table = scroll_back(@)]
  /\ UNCHANGED store_vars

Key_Down ==
  /\ Scrolling
  /\ calc' = [calc EXCEPT !.input = "Down",
                !.res.table = scroll_forward(@, calc.arg.max_index_table,
                                             calc.arg.num_rows, calc.arg.overflow_checks)]
  /\ UNCHANGED store_vars

\* Any other key but 'q' leaves the Scrollers as they are.
Key_other ==
  /\ Scrolling
  /\ calc' = [calc EXCEPT !.input = "other"]
  /\ UNCHANGED store_vars

NextScroll == Key_Right \/ Key_Left \/ Key_Up \/ Key_Down \/ Key_other

SpecScroll == InitScroll /\ [][NextScroll]_vars

\* The window shows num entries between 0 and max_index and nothing panicked.
in_range(w, max_index, num) ==
  /\ ~w.panic
  /\ 0 <= w.start /\ w.start <= w.end /\ w.end <= max_index
  /\ w.end - w.start = num

\* C37: from start = 0 and end = num <= max, after any sequence of Left, Right,
\* Up and Down keys the bar window and the table window each have
\* 0 <= start <= end <= max and end - start = num, and no subtraction in
\* Scrollers::update underflows.
ScrollWindowsInRange ==
  calc.fn = "Scrollers" =>
    /\ in_range(calc.res.bar, calc.arg.max_index_bar, calc.arg.num_bars)
    /\ in_range(calc.res.table, calc.arg.max_index_table, calc.arg.num_rows)

\* ------------------------------------------------------------------ months

\* A calendar date as <<year, month, day>>.
year(date) == date[1]
month(date) == date[2]

CalendarDates == {<<y, m, d>> : y \in 0..MaxYear, m \in 1..12, d \in Days}

\* The months from..to of the year, each on its first day: one for loop of get_months.
months_push(y, from, to) ==
  [i \in 1..(IF to >= from THEN to - from + 1 ELSE 0) |-> <<y, from + i - 1, 1>>]

\* for year in min_year..max_year: the twelve months of every year before max_year.
RECURSIVE months_of_years(_, _)
months_of_years(min_year, max_year) ==
  IF min_year >= max_year THEN <<>>
  ELSE months_push(min_year, 1, 12) \o months_of_years(min_year + 1, max_year)

get_months(min_date, max_date) ==
  months_push(year(min_date), month(min_date), 12)
    \o months_of_years(year(min_date), year(max_date))
    \o months_push(year(max_date), 1, month(max_date))

\* min_date is not after max_date.
not_after(min_date, max_date) ==
  \/ year(min_date) < year(max_date)
  \/ year(min_date) = year(max_date) /\ month(min_date) < month(max_date)
  \/ year(min_date) = year(max_date) /\ month(min_date) = month(max_date)
       /\ min_date[3] <= max_date[3]

\* Quoth::stats gives get_months the earliest and the latest month counted.
InitMonths ==
  /\ InitStore
  /\ \E min_date, max_date \in CalendarDates :
       /\ not_after(min_date, max_date)
       /\ calc = [fn |-> "input", arg |-> None, res |-> None,
                  input |-> [min_date |-> min_date, max_date |-> max_date]]

Apply_get_months ==
  /\ calc.fn = "input"
  /\ calc' = Applied("get_months", calc.input,
                     get_months(calc.input.min_date, calc.input.max_date))
  /\ UNCHANGED store_vars

NextMonths == Apply_get_months

SpecMonths == InitMonths /\ [][NextMonths]_vars

\* The number of a month, counted from month 1 of year 0.
month_number(date) == year(date) * 12 + month(date) - 1

\* C38: get_months(min_date, max_date) with min_date <= max_date is the first
\* day of every month from that of min_date to that of max_date, in ascending
\* order, each once and none outside, also when both dates are in one year.
GetMonthsListsEachMonthOnce ==
  calc.fn = "get_months" =>
    LET first == month_number(calc.arg.min_date)
        n == month_number(calc.arg.max_date) - first + 1
    IN /\ Len(calc.res) = n
       /\ \A i \in 1..Len(calc.res) :
            calc.res[i] = <<(first + i - 1) \div 12, ((first + i - 1) % 12) + 1, 1>>

\* ------------------------------------------------------------------ events

\* The dashboard of Quoth::stats and the two threads of Events::with_config.
\* calc.arg holds where each thread is: the rendering loop of stats ("draw",
\* "next", "returned" once it has left the loop and dropped the Events,
\* "exited" once the process has ended), the input thread ("keys" or
\* "returned") and the tick thread ("send", "sleep" or "panicked").
\* calc.res.rx tells whether the Receiver is alive; calc.input is the channel.
Events_with_config ==
  [fn |-> "Events",
   arg |-> [stats |-> "draw", input_handle |-> "keys", tick_handle |-> "send"],
   res |-> [rx |-> TRUE],
   input |-> <<>>]

InitEvents == InitStore /\ calc = Events_with_config

\* The process is running: its threads take steps.
Running == calc.fn = "Events" /\ calc.arg.stats # "exited"

\* tx.send: the event joins the channel while the Receiver is alive.
send(event) == IF calc.res.rx THEN Append(calc.input, event) ELSE calc.input

\* terminal.draw in the rendering loop.
Stats_draw ==
  /\ Running
  /\ calc.arg.stats = "draw"
  /\ calc' = [calc EXCEPT !.arg.stats = "next"]
  /\ UNCHANGED store_vars

\* events.next() returns the oldest event; on the quit key the loop breaks,
\* stats returns and the Events, with its Receiver, is dropped.
Stats_next ==
  /\ Running
  /\ calc.arg.stats = "next"
  /\ calc.input # <<>>
  /\ IF Head(calc.input) = "q"
     THEN calc' = [calc EXCEPT !.arg.stats = "returned", !.res.rx = FALSE, !.input = <<>>]
     ELSE calc' = [calc EXCEPT !.arg.stats = "draw", !.input = Tail(@)]
  /\ UNCHANGED store_vars

\* After stats has returned, main returns and the process ends.
Process_exit ==
  /\ Running
  /\ calc.arg.stats = "returned"
  /\ calc' = [calc EXCEPT !.arg.stats = "exited"]
  /\ UNCHANGED store_vars

\* The input thread reads a key and sends it; it returns when the send fails
\* and after the exit key.
Input_key ==
  /\ Running
  /\ calc.arg.input_handle = "keys"
  /\ Len(calc.input) < MaxQueue
  /\ \E key \in {"q", "Left", "Right"} :
       calc' = [calc EXCEPT !.input = send(key),
                            !.arg.input_handle =
                               IF ~calc.res.rx \/ key = "q" THEN "returned" ELSE "keys"]
  /\ UNCHANGED store_vars

\* tx.send(Event::Tick).unwrap() in the tick thread: a failed send panics.
Tick_send ==
  /\ Running
  /\ calc.arg.tick_handle = "send"
  /\ Len(calc.input) < MaxQueue
  /\ calc' = [calc EXCEPT !.input = send("Tick"),
                          !.arg.tick_handle = IF calc.res.rx THEN "sleep" ELSE "panicked"]
  /\ UNCHANGED store_vars

\* thread::sleep(config.tick_rate) ends.
Tick_sleep ==
  /\ Running
  /\ calc.arg.tick_handle = "sleep"
  /\ calc' = [calc EXCEPT !.arg.tick_handle = "send"]
  /\ UNCHANGED store_vars

NextEvents ==
  \/ Stats_draw
  \/ Stats_next
  \/ Process_exit
  \/ Input_key
  \/ Tick_send
  \/ Tick_sleep

SpecEvents == InitEvents /\ [][NextEvents]_vars

\* C39: the send of the tick thread never fails: in every interleaving of the
\* rendering loop, the input thread and the tick thread the Receiver is alive
\* whenever the tick thread sends, also after the rendering loop has left on
\* the quit key, so the unwrap on send never panics.
TickSendNeverFails ==
  calc.fn = "Events" => calc.arg.tick_handle # "panicked"

====
